---- MODULE Spec2Model ----
(***************************************************************************)
(* Model of the board/cell engine of src/minesweeper.py: Cell, Board,      *)
(* mine placement (Board.__init__), neighbour iteration, the cascade       *)
(* (Board._traverse_empty), the flag/reveal operation (Board.update_view)  *)
(* and the win query (Board.won).                                          *)
(*                                                                         *)
(* A cell is a record [value, view, ir, jr].  value is -1 for a mine and   *)
(* the count of adjacent mines otherwise.  view is the display value:      *)
(* "O" (hidden), "M" (flagged), "X" (detonated), "" (revealed blank) or    *)
(* the adjacency number (revealed numbered).  Python stores the number     *)
(* itself in view; the model stores its decimal string, because the code   *)
(* only ever tests view for equality with 'M' and for truthiness, and a    *)
(* positive number and its non-empty string agree on both.                 *)
(***************************************************************************)
EXTENDS Integers, Sequences, FiniteSets, TLC

\* Largest board dimension whose construction is explored.
MaxDim == 3
\* Largest number of Board.update_view calls made on one board.
MaxOps == 3

\* Dimensions whose construction is explored (d = 1 makes Cell.__init__
\* give the only row the edge class 1 and _iter_neighbors raise KeyError).
Dims == 2..MaxDim
\* Dimensions on which play (Board.update_view) is explored.
PlayDims == {3}

VARIABLES
    d,        \* Board.d
    diff,     \* Board.diff
    grid,     \* Board.grid: position -> cell
    bomb,     \* Board.bomb
    left,     \* Board.left
    mines,    \* the local set mines of Board.__init__
    pc,       \* "init": inside the while loop of Board.__init__; "play": constructed;
              \* "cascade": inside Board._traverse_empty; "KeyError": __init__ raised
    collided, \* history: some draw of Board.__init__ hit a position already mined
    call,     \* the last Board.update_view call: its arguments, locals and result
    nops,     \* number of Board.update_view calls made so far
    casc      \* the running cascade: the activations of Board._traverse_empty
              \* that have not returned, and the cells expanded so far

vars == <<d, diff, grid, bomb, left, mines, pc, collided, call, nops, casc>>

\* The positions (i, j) of a board of dimension n: range(d) x range(d).
Pos(n) == (0..(n - 1)) \X (0..(n - 1))

\* modes = {0: 8, 1: 6, 2: 4}
Modes == [m \in 0..2 |-> CASE m = 0 -> 8 [] m = 1 -> 6 [] m = 2 -> 4]

\* The lookup with a default in place of the KeyError: modes.get(diff, 8).
ModeOfWithDefault(m) ==
    IF m \in DOMAIN Modes THEN [ok |-> TRUE, div |-> Modes[m]]
    ELSE [ok |-> TRUE, div |-> 8]

\* modes[diff]: the divisor, or the KeyError of a diff that is no key.
ModeOf(m) ==
    IF m \in DOMAIN Modes THEN [ok |-> TRUE, div |-> Modes[m]]
    ELSE [ok |-> FALSE, div |-> 0]

\* Board._ranges with the middle range ending one short: 0: range(-1, 1).
RangesShort(c) == CASE c = -1 -> <<0, 1>> [] c = 0 -> <<-1, 0>> [] c = 1 -> <<-1, 0>>

\* Board._ranges = {-1: range(0, 2), 0: range(-1, 2), 1: range(-1, 1)}
Ranges(c) == CASE c = -1 -> <<0, 1>> [] c = 0 -> <<-1, 0, 1>> [] c = 1 -> <<-1, 0>>

\* 1 if i == d - 1 else bool(i) - 1
EdgeClass(n, i) == IF i = n - 1 THEN 1 ELSE (IF i # 0 THEN 1 ELSE 0) - 1

\* Cell.__init__(d, i, j, value=0, view='O')
NewCell(n, i, j) ==
    [value |-> 0, view |-> "O", ir |-> EdgeClass(n, i), jr |-> EdgeClass(n, j)]

\* self.value == 'M': value is always an int, and in Python an int never
\* equals a str, so the comparison is False whatever the value.
IntEqStr(n, s) == FALSE

\* self.view = self.value, for a value > 0
NumView(n) == ToString(n)

\* Cell.update_view with the test of a non-zero value made before the test
\* of a negative one: a mine is shown its value and nothing is returned.
CellUpdateViewValueFirst(cell, mark) ==
    IF mark
    THEN [cell |-> [cell EXCEPT !.view = "M"], save |-> "None"]
    ELSE IF cell.value # 0
    THEN [cell |-> [cell EXCEPT !.view = NumView(cell.value)], save |-> "None"]
    ELSE IF cell.view # ""
    THEN [cell |-> [cell EXCEPT !.view = ""], save |-> "True"]
    ELSE [cell |-> cell, save |-> "None"]

\* Cell.update_view without the test of the view in its last branch: a blank
\* cell returns True every time it is revealed.
CellUpdateViewBlankAgain(cell, mark) ==
    IF mark
    THEN [cell |-> [cell EXCEPT !.view = "M"], save |-> "None"]
    ELSE IF cell.value < 0
    THEN [cell |-> [cell EXCEPT !.view = "X"], save |-> "False"]
    ELSE IF cell.value # 0
    THEN [cell |-> [cell EXCEPT !.view = NumView(cell.value)], save |-> "None"]
    ELSE [cell |-> [cell EXCEPT !.view = ""], save |-> "True"]

\* Cell.update_view returning True for the first reveal of a numbered cell
\* as well.
CellUpdateViewNumberedCascades(cell, mark) ==
    IF mark
    THEN [cell |-> [cell EXCEPT !.view = "M"], save |-> "None"]
    ELSE IF cell.value < 0
    THEN [cell |-> [cell EXCEPT !.view = "X"], save |-> "False"]
    ELSE IF cell.value # 0
    THEN [cell |-> [cell EXCEPT !.view = NumView(cell.value)],
          save |-> IF cell.view # NumView(cell.value) THEN "True" ELSE "None"]
    ELSE IF cell.view # ""
    THEN [cell |-> [cell EXCEPT !.view = ""], save |-> "True"]
    ELSE [cell |-> cell, save |-> "None"]

\* Cell.update_view(mark): the cell afterwards and the value returned
\* ("None", "True" or "False").
CellUpdateView(cell, mark) ==
    IF mark
    THEN [cell |-> [cell EXCEPT !.view = "M"], save |-> "None"]
    ELSE IF IntEqStr(cell.value, "M")
    THEN [cell |-> cell, save |-> "None"]
    ELSE IF cell.value < 0
    THEN [cell |-> [cell EXCEPT !.view = "X"], save |-> "False"]
    ELSE IF cell.value # 0
    THEN [cell |-> [cell EXCEPT !.view = NumView(cell.value)], save |-> "None"]
    ELSE IF cell.view # ""
    THEN [cell |-> [cell EXCEPT !.view = ""], save |-> "True"]
    ELSE [cell |-> cell, save |-> "None"]

\* The (x, y) = (i + k, j + l) visited by the two nested loops of
\* Board._iter_neighbors, in loop order, before the filter.
Offsets(g, t) ==
    LET R1 == Ranges(g[t].ir)
        R2 == Ranges(g[t].jr)
    IN  [n \in 1..(Len(R1) * Len(R2)) |->
            <<t[1] + R1[((n - 1) \div Len(R2)) + 1],
              t[2] + R2[((n - 1) % Len(R2)) + 1]>>]

\* The generator without the test that skips mines.
YieldedWithMines(g, t, p) == ~(t = p)

\* Does the generator yield p?  (not a mine, not the origin)
Yielded(g, t, p) == ~(g[p].value < 0 \/ t = p)

\* Board._iter_neighbors(tup): the positions yielded, in order.  The callers
\* change only cells already yielded and never turn a value negative, so
\* the lazy generator yields what this eager sequence holds.
IterNeighbors(g, t) == SelectSeq(Offsets(g, t), LAMBDA p : Yielded(g, t, p))

RECURSIVE IncrementFrom(_, _, _)
\* The loop of Board._increment over the positions s[n..]
IncrementFrom(g, s, n) ==
    IF n > Len(s) THEN g
    ELSE IncrementFrom([g EXCEPT ![s[n]].value = @ + 1], s, n + 1)

\* Board._increment(tup)
Increment(g, t) == IncrementFrom(g, IterNeighbors(g, t), 1)

RECURSIVE RevealFrom(_, _, _, _)
\* The first loop of Board._traverse_empty over the positions s[n..]:
\* the grid afterwards and the cache.  st is the grid and the cache after
\* the iteration on s[n]; binding it makes TLC compute it once.
RevealFrom(g, s, n, cache) ==
    IF n > Len(s) THEN [grid |-> g, cache |-> cache]
    ELSE LET r == CellUpdateView(g[s[n]], FALSE)
         IN  CHOOSE out \in
                {RevealFrom(st.grid, s, n + 1, st.cache) :
                    st \in {[grid |-> [g EXCEPT ![s[n]] = r.cell],
                             cache |-> IF r.save = "True"
                                       THEN Append(cache, s[n]) ELSE cache]}} :
                TRUE

RECURSIVE TraverseEmpty(_, _)
RECURSIVE TraverseCache(_, _, _)
\* The second loop of Board._traverse_empty: for adj in cache: recurse.
TraverseCache(g, cache, n) ==
    IF n > Len(cache) THEN g
    ELSE TraverseCache(TraverseEmpty(g, cache[n]), cache, n + 1)

\* Board._traverse_empty without the loop over the cache.
TraverseEmptyOneLevel(g, t) == RevealFrom(g, IterNeighbors(g, t), 1, <<>>).grid

\* Board._traverse_empty(tup): the grid afterwards.
TraverseEmpty(g, t) ==
    LET r == RevealFrom(g, IterNeighbors(g, t), 1, <<>>)
    IN  TraverseCache(r.grid, r.cache, 1)

\* The cells counted by Board.won
FlaggedMines(g) == {p \in DOMAIN g : g[p].value < 0 /\ g[p].view = "M"}

\* Board.won counting every flagged cell, mine or not.
WonAnyFlag(g, b) ==
    IF Cardinality({p \in DOMAIN g : g[p].view = "M"}) = b THEN "True" ELSE "None"

\* Board.won satisfied with one mine left unflagged: cnt >= self.bomb - 1.
WonOneShort(g, b) == IF Cardinality(FlaggedMines(g)) >= b - 1 THEN "True" ELSE "None"

\* Board.won(): True, or None by falling off the end.
Won(g, b) == IF Cardinality(FlaggedMines(g)) = b THEN "True" ELSE "None"

\* The change of Board.left in Board.update_view
NewLeft(l, old, new) ==
    IF new = "M" /\ old # "M" THEN l - 1
    ELSE IF old = "M" /\ new # "M" THEN l + 1
    ELSE l

\* No Board.update_view call has been made yet.  lost is the note the
\* curses driver keeps of a call that returned False.
NoCall == [tup |-> <<0, 0>>, mark |-> FALSE, old |-> "O", new |-> "O",
           save |-> "None", ret |-> "None", lost |-> FALSE]

\* No cascade is running.
NoCascade == [stack |-> <<>>, expanded |-> <<>>]

\* Board.__init__ up to the while loop.
Init ==
    /\ d \in Dims
    /\ diff \in DOMAIN Modes
    /\ grid = [p \in Pos(d) |-> NewCell(d, p[1], p[2])]
    /\ bomb = (d * d) \div Modes[diff]
    /\ left = bomb
    /\ mines = {}
    /\ pc = "init"
    /\ collided = FALSE
    /\ call = NoCall
    /\ nops = 0
    /\ casc = NoCascade

\* The loop of Board.__init__ running while len(mines) <= self.bomb.
DrawOneTooMany(t) ==
    /\ pc = "init"
    /\ Cardinality(mines) <= bomb
    /\ IF t \in mines
       THEN /\ collided' = TRUE
            /\ UNCHANGED <<grid, mines>>
       ELSE /\ mines' = mines \cup {t}
            /\ grid' = Increment([grid EXCEPT ![t].value = -1], t)
            /\ UNCHANGED collided
    /\ UNCHANGED <<d, diff, bomb, left, pc, call, nops, casc>>

\* The loop of Board.__init__ without "if tup in mines: continue".
DrawNoCollisionTest(t) ==
    /\ pc = "init"
    /\ Cardinality(mines) < bomb
    /\ mines' = mines \cup {t}
    /\ grid' = Increment([grid EXCEPT ![t].value = -1], t)
    /\ collided' = (collided \/ t \in mines)
    /\ UNCHANGED <<d, diff, bomb, left, pc, call, nops, casc>>

\* One iteration of the while loop of Board.__init__ that draws t.
Draw(t) ==
    /\ pc = "init"
    /\ Cardinality(mines) < bomb
    /\ IF t \in mines
       THEN /\ collided' = TRUE
            /\ UNCHANGED <<grid, mines>>
       ELSE /\ mines' = mines \cup {t}
            /\ grid' = Increment([grid EXCEPT ![t].value = -1], t)
            /\ UNCHANGED collided
    /\ UNCHANGED <<d, diff, bomb, left, pc, call, nops, casc>>

\* The while loop of Board.__init__ ends and the board is handed to a driver.
Constructed ==
    /\ pc = "init"
    /\ Cardinality(mines) >= bomb
    /\ pc' = "play"
    /\ UNCHANGED <<d, diff, grid, bomb, left, mines, collided, call, nops, casc>>

\* Board.update_view doing the bookkeeping of Board.left on the request, ahead
\* of the lookup of the cell.
UpdateViewCountsFirst(t, mark) ==
    /\ pc = "play"
    /\ t \notin DOMAIN grid
    /\ call' = [tup |-> t, mark |-> mark, old |-> "unbound", new |-> "unbound",
                save |-> "None", ret |-> "KeyError", lost |-> call.lost]
    /\ left' = IF mark THEN left - 1 ELSE left
    /\ nops' = nops + 1
    /\ UNCHANGED <<d, diff, grid, bomb, mines, pc, collided, casc>>

\* Board.update_view(tup, mark).  self[tup] raises KeyError for a tup that is
\* no key of the grid, before anything is written.
UpdateView(t, mark) ==
    /\ pc = "play"
    /\ IF t \notin DOMAIN grid
       THEN /\ call' = [tup |-> t, mark |-> mark, old |-> "unbound",
                        new |-> "unbound", save |-> "None", ret |-> "KeyError",
                        lost |-> call.lost]
            /\ UNCHANGED <<grid, left>>
       ELSE LET old == grid[t].view
                r == CellUpdateView(grid[t], mark)
                g1 == [grid EXCEPT ![t] = r.cell]
                new == r.cell.view
            IN  IF r.save = "False"
                THEN /\ grid' = g1
                     /\ left' = left
                     /\ call' = [tup |-> t, mark |-> mark, old |-> old, new |-> new,
                                 save |-> r.save, ret |-> "False", lost |-> TRUE]
                ELSE LET g2 == IF r.save = "True" THEN TraverseEmpty(g1, t) ELSE g1
                     IN  /\ grid' = g2
                         /\ left' = NewLeft(left, old, new)
                         /\ call' = [tup |-> t, mark |-> mark, old |-> old,
                                     new |-> new, save |-> r.save,
                                     ret |-> Won(g2, bomb), lost |-> call.lost]
    /\ nops' = nops + 1
    /\ UNCHANGED <<d, diff, bomb, mines, pc, collided, casc>>

\* The update_view calls a driver makes on a board whose dimension is in D,
\* with positions from T, while fewer than n calls have been made.
Play(D, T, n) ==
    /\ d \in D
    /\ nops < n
    /\ \E t \in T, mark \in BOOLEAN : UpdateView(t, mark)

Next ==
    \/ \E t \in Pos(d) : Draw(t)
    \/ Constructed
    \/ Play(PlayDims, Pos(d), MaxOps)

Spec == Init /\ [][Next]_vars

\* The difficulties handed to Board.__init__: the keys of modes and the
\* integers next to them.
RawDiffs == -1..3

\* Board.__init__(d, diff) up to the while loop, for every diff: modes[diff]
\* raises KeyError after the grid is allocated, before bomb and left are set.
InitArgs ==
    /\ d \in Dims
    /\ diff \in RawDiffs
    /\ grid = [p \in Pos(d) |-> NewCell(d, p[1], p[2])]
    /\ LET m == ModeOf(diff)
       IN  IF m.ok
           THEN /\ bomb = (d * d) \div m.div
                /\ pc = "init"
           ELSE /\ bomb = 0
                /\ pc = "KeyError"
    /\ left = bomb
    /\ mines = {}
    /\ collided = FALSE
    /\ call = NoCall
    /\ nops = 0
    /\ casc = NoCascade

SpecArgs == InitArgs /\ [][Next]_vars

\* Largest number of update_view calls where calls off the grid are explored.
MaxOpsRange == 2

\* Positions off the grid: a row or a column one below 0 or one above d - 1.
OutPos(n) == {<<-1, 0>>, <<0, -1>>, <<n, 0>>, <<n - 1, n>>}

\* Construction, then calls with positions on and off the grid.
NextRange ==
    \/ \E t \in Pos(d) : Draw(t)
    \/ Constructed
    \/ Play(PlayDims, Pos(d) \cup OutPos(d), MaxOpsRange)

SpecRange == Init /\ [][NextRange]_vars

\* Largest number of update_view calls where the cascade is explored one
\* activation of Board._traverse_empty at a time.
MaxOpsCascade == 1

\* Board.update_view(tup, mark) up to its call of self._traverse_empty(tup);
\* a call that starts no cascade runs to its end.
StartUpdate(t, mark) ==
    /\ pc = "play"
    /\ IF CellUpdateView(grid[t], mark).save = "True"
       THEN LET r == CellUpdateView(grid[t], mark)
            IN  /\ grid' = [grid EXCEPT ![t] = r.cell]
                /\ left' = NewLeft(left, grid[t].view, r.cell.view)
                /\ call' = [tup |-> t, mark |-> mark, old |-> grid[t].view,
                            new |-> r.cell.view, save |-> r.save,
                            ret |-> "pending", lost |-> call.lost]
                /\ casc' = [stack |-> <<[cache |-> <<t>>, n |-> 1]>>,
                            expanded |-> <<>>]
                /\ pc' = "cascade"
                /\ nops' = nops + 1
                /\ UNCHANGED <<d, diff, bomb, mines, collided>>
       ELSE UpdateView(t, mark)

\* One step of the cascade.  The innermost activation that has not returned
\* either calls self._traverse_empty(adj) for the next adj of its cache,
\* which runs the first loop of the new activation (reveal the neighbours,
\* build the cache), or has no adj left and returns.
CascadeStep ==
    /\ pc = "cascade"
    /\ casc.stack # <<>>
    /\ LET k == Len(casc.stack)
           top == casc.stack[k]
       IN  IF top.n > Len(top.cache)
           THEN /\ casc' = [casc EXCEPT !.stack = SubSeq(casc.stack, 1, k - 1)]
                /\ UNCHANGED grid
           ELSE LET adj == top.cache[top.n]
                    r == RevealFrom(grid, IterNeighbors(grid, adj), 1, <<>>)
                IN  /\ grid' = r.grid
                    /\ casc' = [stack |-> Append([casc.stack EXCEPT ![k].n = @ + 1],
                                                 [cache |-> r.cache, n |-> 1]),
                                expanded |-> Append(casc.expanded, adj)]
    /\ UNCHANGED <<d, diff, bomb, left, mines, pc, collided, call, nops>>

\* The outermost _traverse_empty has returned: return self.won().
CascadeReturn ==
    /\ pc = "cascade"
    /\ casc.stack = <<>>
    /\ call' = [call EXCEPT !.ret = Won(grid, bomb)]
    /\ pc' = "play"
    /\ UNCHANGED <<d, diff, grid, bomb, left, mines, collided, nops, casc>>

\* Construction, then calls whose cascade runs step by step.
NextCascade ==
    \/ \E t \in Pos(d) : Draw(t)
    \/ Constructed
    \/ /\ d \in PlayDims
       /\ nops < MaxOpsCascade
       /\ \E t \in Pos(d), mark \in BOOLEAN : StartUpdate(t, mark)
    \/ CascadeStep
    \/ CascadeReturn

\* A call runs to its end: update_view is synchronous and nothing else runs
\* while the cascade does.
SpecCascade ==
    /\ Init
    /\ [][NextCascade]_vars
    /\ WF_vars(CascadeStep)
    /\ WF_vars(CascadeReturn)

\* Largest number of update_view calls made on the smallest board.
MaxOpsSmall == 6

\* The smallest board, on which long runs of calls are explored.
SmallDims == {2}

\* Construction, then up to MaxOpsSmall calls on a board of dimension 2.
NextSmall ==
    \/ \E t \in Pos(d) : Draw(t)
    \/ Constructed
    \/ Play(SmallDims, Pos(d), MaxOpsSmall)

\* The state after the head of Board.__init__ on the smallest board.
InitSmall == Init /\ d \in SmallDims

SpecSmall == InitSmall /\ [][NextSmall]_vars

TypeOK ==
    /\ d \in Dims
    /\ diff \in 0..2
    /\ pc \in {"init", "play", "cascade", "KeyError"}
    /\ nops >= 0
    /\ \A p \in Pos(d) : grid[p].value \in -1..8
(***************************************************************************)
(* Vocabulary of the properties.                                           *)
(***************************************************************************)

\* The state of a cell, read off its view.
StateOf(c) ==
    CASE c.view = "O" -> "Hidden"
      [] c.view = "M" -> "Flagged"
      [] c.view = "X" -> "Detonated"
      [] OTHER -> "Revealed"

IsMine(c) == c.value < 0

\* The step is a Board.update_view call; call' holds its arguments.
IsCall == nops' = nops + 1
IsFlagCall == IsCall /\ call'.mark
IsRevealCall == IsCall /\ ~call'.mark

\* p and q are distinct and at most one row and one column apart.
Adjacent(p, q) ==
    /\ p # q
    /\ p[1] - q[1] \in -1..1
    /\ p[2] - q[2] \in -1..1

MineCells(g) == {p \in DOMAIN g : IsMine(g[p])}

RECURSIVE ZeroClosure(_, _)
\* The least set of zero-adjacency non-mine cells that holds S and is closed
\* under adjacency.
ZeroClosure(g, S) ==
    LET N == S \cup {p \in DOMAIN g :
                        g[p].value = 0 /\ \E q \in S : Adjacent(p, q)}
    IN  IF N = S THEN S ELSE ZeroClosure(g, N)

\* The maximal 8-connected region of zero-adjacency cells that holds t.
ZeroRegion(g, t) == ZeroClosure(g, {t})

\* The region together with every non-mine cell adjacent to a cell of it.
RegionAndBorder(g, t) ==
    LET R == ZeroRegion(g, t)
    IN  R \cup {p \in DOMAIN g : ~IsMine(g[p]) /\ \E q \in R : Adjacent(p, q)}

(***************************************************************************)
(* The properties.                                                         *)
(***************************************************************************)

\* C1: an update returns Win (True) if and only if, after the operation and
\* any cascade, the number of cells that are mines and are Flagged equals
\* mineCount; flags on other cells do not enter the count.
C1_WinIffAllMinesFlagged ==
    nops > 0 =>
        (call.ret = "True" <=>
            Cardinality({p \in Pos(d) : IsMine(grid[p])
                                         /\ StateOf(grid[p]) = "Flagged"}) = bomb)

\* A Win returned while a cell that is no mine is Flagged as well.
C1_Witness ==
    /\ nops > 0
    /\ call.ret = "True"
    /\ bomb > 0
    /\ \E p \in Pos(d) : ~IsMine(grid[p]) /\ StateOf(grid[p]) = "Flagged"

\* C2 (as claimed): a flag request toggles the target: Hidden becomes
\* Flagged, Flagged becomes Hidden, Revealed and Detonated stay as they are.
C2_FlagToggles ==
    [][IsFlagCall =>
        LET before == StateOf(grid[call'.tup])
            after == StateOf(grid'[call'.tup])
        IN  after = CASE before = "Hidden" -> "Flagged"
                      [] before = "Flagged" -> "Hidden"
                      [] OTHER -> before]_vars

\* C3 (as claimed): when a Hidden cell has just been flagged, a second flag
\* request on the same cell gives unflaggedRemaining the value it had before
\* the first, which is one more than the value between the two.
C3_FlagUnflagRestoresLeft ==
    [][(/\ nops > 0
        /\ call.mark
        /\ call.old = "O"
        /\ IsFlagCall
        /\ call'.tup = call.tup) => left' = left + 1]_vars

\* C4 (as claimed): a reveal request on a Flagged cell changes no cell and
\* not unflaggedRemaining and does not return Loss, and a cascade leaves
\* every Flagged cell Flagged.
C4_RevealSparesFlagged ==
    [][/\ (IsRevealCall /\ StateOf(grid[call'.tup]) = "Flagged") =>
            (grid' = grid /\ left' = left /\ call'.ret # "False")
       /\ (IsCall /\ call'.save = "True") =>
            \A p \in Pos(d) \ {call'.tup} :
                StateOf(grid[p]) = "Flagged" => StateOf(grid'[p]) = "Flagged"]_vars

\* C5 (as claimed): once a cell is Revealed or Detonated, no later update
\* changes its state.
C5_RevealedDetonatedTerminal ==
    [][\A p \in Pos(d) :
        StateOf(grid[p]) \in {"Revealed", "Detonated"} =>
            StateOf(grid'[p]) = StateOf(grid[p])]_vars

\* C6: a reveal request on a Hidden mine sets it Detonated and returns Loss,
\* starts no cascade, changes no other cell and leaves unflaggedRemaining.
C6_HiddenMineDetonates ==
    [][(/\ IsRevealCall
        /\ StateOf(grid[call'.tup]) = "Hidden"
        /\ IsMine(grid[call'.tup])) =>
            /\ StateOf(grid'[call'.tup]) = "Detonated"
            /\ call'.ret = "False"
            /\ call'.save # "True"
            /\ \A p \in Pos(d) \ {call'.tup} : grid'[p] = grid[p]
            /\ grid'[call'.tup].value = grid[call'.tup].value
            /\ left' = left]_vars

\* A Hidden mine has just been revealed.
C6_Witness ==
    /\ nops > 0
    /\ ~call.mark
    /\ call.old = "O"
    /\ IsMine(grid[call.tup])
    /\ call.ret = "False"

\* C7: revealing a Hidden non-mine cell with adjacency 0 leaves Revealed
\* every cell of the maximal 8-connected zero-adjacency region that holds it
\* and every non-mine cell adjacent to that region, and changes the state of
\* no cell outside that set.
C7_CascadeRevealsRegionAndBorder ==
    [][(/\ IsRevealCall
        /\ StateOf(grid[call'.tup]) = "Hidden"
        /\ grid[call'.tup].value = 0) =>
            LET S == RegionAndBorder(grid, call'.tup)
            IN  \A p \in Pos(d) :
                    IF p \in S
                    THEN StateOf(grid'[p]) = "Revealed"
                    ELSE StateOf(grid'[p]) = StateOf(grid[p])]_vars

\* A cascade has just run from a Hidden blank cell, through a zero cell that
\* is not next to the target, on a board where a non-mine cell lies outside
\* the region and its border.
C7_Witness ==
    /\ nops > 0
    /\ ~call.mark
    /\ call.old = "O"
    /\ call.save = "True"
    /\ \E p \in ZeroRegion(grid, call.tup) : p # call.tup /\ ~Adjacent(p, call.tup)
    /\ \E p \in Pos(d) : ~IsMine(grid[p]) /\ p \notin RegionAndBorder(grid, call.tup)

\* C8: an update that starts a cascade changes no mine cell and does not
\* return Loss.
C8_CascadeNeverTouchesMine ==
    [][(IsCall /\ call'.save = "True") =>
            /\ \A p \in Pos(d) : IsMine(grid[p]) => grid'[p] = grid[p]
            /\ call'.ret # "False"]_vars

\* A cascade has just run on a board with a mine, past a cell next to a mine.
C8_Witness ==
    /\ nops > 0
    /\ call.save = "True"
    /\ bomb > 0
    /\ \E p \in RegionAndBorder(grid, call.tup) :
            \E q \in MineCells(grid) : Adjacent(p, q)

\* The divisor of a difficulty, as the claim lists it.
Divisor(m) == CASE m = 0 -> 8 [] m = 1 -> 6 [] m = 2 -> 4

\* C9: construction ends with mineCount = floor(d*d / divisor(difficulty))
\* and exactly mineCount mine cells, whatever the draws, collisions included;
\* and no update changes the set of mine cells.
C9_MineCount ==
    /\ [](/\ bomb = (d * d) \div Divisor(diff)
          /\ pc = "play" => Cardinality(MineCells(grid)) = bomb)
    /\ [][pc = "play" => MineCells(grid') = MineCells(grid)]_vars

\* A board whose construction drew a mined position again, after play on it.
C9_Witness ==
    /\ pc = "play"
    /\ collided
    /\ bomb > 1
    /\ nops = MaxOps
    /\ Cardinality(MineCells(grid)) = bomb

\* The number of mines among the in-grid 8 neighbours of p.
MinesAround(g, p) == Cardinality({q \in MineCells(g) : Adjacent(p, q)})

\* C10: after construction every non-mine cell's adjacency is the number of
\* mines among its in-grid 8 neighbours, and every position that was drawn
\* as a mine holds the mine sentinel, whatever the order of placement.
C10_AdjacencyCounts ==
    pc = "play" =>
        /\ \A p \in Pos(d) :
                ~IsMine(grid[p]) => grid[p].value = MinesAround(grid, p)
        /\ \A p \in mines : grid[p].value = -1

\* A constructed board with two mines next to each other (the second was
\* drawn on a cell the first had incremented) and a cell next to both.
C10_Witness ==
    /\ pc = "play"
    /\ \E p, q \in mines : Adjacent(p, q)
    /\ \E p \in Pos(d) : grid[p].value >= 2

\* C11 (as claimed): in every state reached by updates, unflaggedRemaining
\* lies between -(d*d - mineCount) and mineCount.
C11_LeftInRange ==
    pc = "play" => left \in (0 - (d * d - bomb))..bomb

\* The cells that are Flagged.
FlaggedCells(g) == {p \in DOMAIN g : StateOf(g[p]) = "Flagged"}

\* C12 (as claimed): in every state unflaggedRemaining equals mineCount minus
\* the number of cells that are Flagged, mines or not.
C12_LeftTracksFlags ==
    pc = "play" => left = bomb - Cardinality(FlaggedCells(grid))

\* Every update so far was a flag request on a Hidden cell: each call added
\* one Flagged cell, which a reveal never does and a flag request does only
\* on a cell that is not Flagged; without a reveal every such cell is Hidden.
OnlyHiddenFlags ==
    /\ nops = Cardinality(FlaggedCells(grid))
    /\ \A p \in Pos(d) : StateOf(grid[p]) \in {"Hidden", "Flagged"}

AllMinesFlagged == \A p \in MineCells(grid) : StateOf(grid[p]) = "Flagged"

\* C13: on a fresh board, while only flag requests on Hidden cells are made,
\* a call returns Continue as long as a mine is left unflagged, and the call
\* that flags the last unflagged mine returns Win.
C13_WinOnLastMineFlag ==
    (nops > 0 /\ OnlyHiddenFlags) =>
        /\ ~AllMinesFlagged => call.ret = "None"
        /\ (AllMinesFlagged /\ IsMine(grid[call.tup])) => call.ret = "True"

\* The second of two mines has just been flagged, after a flag on a cell
\* that is no mine.
C13_Witness ==
    /\ OnlyHiddenFlags
    /\ bomb = 2
    /\ nops = 3
    /\ IsMine(grid[call.tup])
    /\ AllMinesFlagged
    /\ call.ret = "True"

\* The elements of a sequence.
Range(s) == {s[n] : n \in DOMAIN s}

\* dims = min(20, max(5, dims)): the dimensions main lets through.
MinSupportedDim == 5
MaxSupportedDim == 20

C16_NeighboursExact ==
    nops = 0 =>
    \A t \in Pos(d) :
        /\ Range(Offsets(grid, t)) \subseteq Pos(d)
        /\ Range(IterNeighbors(grid, t)) =
                {p \in Pos(d) : Adjacent(p, t) /\ ~IsMine(grid[p])}
        /\ Len(IterNeighbors(grid, t)) = Cardinality(Range(IterNeighbors(grid, t)))

\* A board with a cell away from every edge that has a mine and a cell that
\* is no mine among its eight neighbours, and a corner next to a mine.
C16_Witness ==
    /\ pc = "play"
    /\ \E t \in Pos(d) :
            /\ Len(Offsets(grid, t)) = 9
            /\ \E p \in MineCells(grid) : Adjacent(p, t)
            /\ Len(IterNeighbors(grid, t)) \in 1..7
    /\ \E t \in Pos(d) :
            /\ Len(Offsets(grid, t)) = 4
            /\ \E p \in MineCells(grid) : Adjacent(p, t)

\* C17: within one cascade every cell is expanded at most once, so that at
\* most d*d cells are, and every cascade ends: the update returns.
C17_CascadeTerminates ==
    /\ [](/\ Len(casc.expanded) = Cardinality(Range(casc.expanded))
          /\ Len(casc.expanded) <= d * d)
    /\ (pc = "cascade") ~> (pc = "play")

\* A cascade that expanded five cells, on a board with a mine, has ended and
\* the update has returned.
C17_Witness ==
    /\ pc = "play"
    /\ nops > 0
    /\ bomb > 0
    /\ call.save = "True"
    /\ call.ret # "pending"
    /\ Len(casc.expanded) >= 5

\* C18: a flag request, a reveal of a mine and a reveal of a cell with
\* adjacency > 0 change no cell but the target, and a reveal of a cell with
\* adjacency > 0 sets it Revealed and starts no cascade.
C18_OnlyBlankRevealSpreads ==
    [][/\ (IsCall /\ (call'.mark \/ grid[call'.tup].value # 0)) =>
            \A p \in Pos(d) \ {call'.tup} : grid'[p] = grid[p]
       /\ (IsRevealCall /\ grid[call'.tup].value > 0) =>
            /\ StateOf(grid'[call'.tup]) = "Revealed"
            /\ call'.save # "True"]_vars

\* A Hidden cell with adjacency > 0 has just been revealed next to a Hidden
\* cell that is no mine.
C18_Witness ==
    /\ nops > 0
    /\ ~call.mark
    /\ call.old = "O"
    /\ grid[call.tup].value > 0
    /\ StateOf(grid[call.tup]) = "Revealed"
    /\ \E p \in Pos(d) :
            Adjacent(p, call.tup) /\ ~IsMine(grid[p]) /\ StateOf(grid[p]) = "Hidden"

\* C14: an update called with a position outside [0,d) x [0,d) fails with an
\* error (KeyError) and leaves every cell and unflaggedRemaining as they were.
C14_OutOfRangeRejected ==
    [][(IsCall /\ call'.tup \notin Pos(d)) =>
            /\ call'.ret = "KeyError"
            /\ grid' = grid
            /\ left' = left]_vars

\* A call off the grid has just failed on a board that a call had changed.
C14_Witness ==
    /\ nops = 2
    /\ call.tup \notin Pos(d)
    /\ call.mark
    /\ call.ret = "KeyError"
    /\ \E p \in Pos(d) : StateOf(grid[p]) # "Hidden"

\* C19 (as claimed): once an update has returned Loss, no later update on the
\* board returns Win.
C19_NoWinAfterLoss ==
    (nops > 0 /\ call.lost) => call.ret # "True"
====
